---- MODULE Spec2Model ----
(***************************************************************************)
(* Tessera: an NTT over Z_q split into per-layer tiles, checkpointed to a  *)
(* non-volatile memory and driven under an intermittent power source.      *)
(*                                                                         *)
(* Vectors (numpy arrays) are functions on 0..len-1, as in the source.     *)
(* A numpy array is an object: two names may denote the same array, and an *)
(* in-place store through one is seen through the other.  The only array   *)
(* held outside the memory is the caller's (the scheduler's `working`), so *)
(* object identity is recorded as the set of memory addresses whose stored *)
(* array is the very object the caller holds (working_alias).              *)
(***************************************************************************)
EXTENDS Integers, Sequences, FiniteSets, TLC

VARIABLES
    storage,           \* NonVolatileMemory.storage : dict address -> array
    leakage_trace,     \* NonVolatileMemory.leakage_trace : list of (time, hw)
    is_powered,        \* PowerSource.is_powered
    wake,              \* power_restored has been triggered for the waiting task
    pc,                \* position of the run_atomic_ntt generator
    poly_data,         \* the caller's input polynomial
    working,           \* the array the task (or caller) holds
    working_alias,     \* addresses whose stored array is that same object
    layer_idx,         \* loop variable of run_atomic_ntt
    current_step,      \* AtomicTaskScheduler.current_step
    completed_layers,  \* AtomicTaskScheduler.completed_layers
    power_failures,    \* AtomicTaskScheduler.power_failures
    restores,          \* AtomicTaskScheduler.restores
    now,               \* env.now as the task observes it
    runs,              \* number of runs the host has left behind so far
    origin,            \* history: contents of the memory when it was handed over
    start_storage,     \* history: memory contents when the current run started
    write_log,         \* history: addresses written by the current run, in order
    written,           \* history: address -> value handed to its last write
    power_lost,        \* PowerSource.power_lost : the exposed event object
    power_restored,    \* PowerSource.power_restored : the exposed event object
    edge_log,          \* history: power firings and subscriber steps, in order
    args,              \* the operands of a call made on the ring by a host
    result             \* what that call returned

vars == << storage, leakage_trace, is_powered, wake, pc, poly_data, working,
           working_alias, layer_idx, current_step, completed_layers,
           power_failures, restores, now, runs, origin, start_storage,
           write_log, written, power_lost, power_restored, edge_log, args, result >>

----------------------------------------------------------------------------
(* Parameters and bounds *)

\* ring parameters handed to PolynomialRing(n, q)
N == 8
Q == 17

\* program constants
DEFAULT_N == 256
DEFAULT_Q == 3329
OMEGA == 3061
STATE_ADDR == 65535
DATA_BASE == 0
COMPUTE_COST_PER_LAYER == 10
CHECKPOINT_COST_PER_LAYER == 5

\* bounds of the model
MaxCoeff == 1          \* input coefficients range over 0..MaxCoeff
MaxRuns == 1           \* runs the host leaves behind before a new one
MaxWait == 1           \* longest wait for power_restored, in time units
MaxWrites == 3         \* writes a host makes when it drives the memory itself
MaxN == 16             \* largest n handed to PolynomialRing(n, q)
MaxQ == 18             \* largest q handed to PolynomialRing(n, q)
MaxLen == 3            \* longest blob handed to the Hamming-weight function
MaxBits == 3             \* log2 of the longest array handed to _bit_reverse_copy
MaxStride == 3           \* largest step between neighbouring entries of such an array
MaxSignals == 8        \* power firings and subscriber steps that are recorded

----------------------------------------------------------------------------
(* core/math.py *)

RECURSIVE bit_length(_)
bit_length(n) == IF n = 0 THEN 0 ELSE 1 + bit_length(n \div 2)

RECURSIVE PowMod(_, _, _)
PowMod(b, e, m) == IF e = 0 THEN 1 % m ELSE (b * PowMod(b, e - 1, m)) % m

\* int(f"{i:0{bits}b}"[::-1], 2)
RECURSIVE BitRev(_, _)
BitRev(i, bits) ==
    IF bits = 0 THEN 0
    ELSE (i % 2) * (2 ^ (bits - 1)) + BitRev(i \div 2, bits - 1)

\* mutant: the entries are rotated by one place
bit_reverse_copy_rotated(a, n) == [r \in 0..(n - 1) |-> a[(r + 1) % n]]

\* result[rev] = a[i] for every i in range(n)
bit_reverse_copy(a, n) ==
    LET bits == bit_length(n) - 1
    IN  [r \in 0..(n - 1) |->
            a[CHOOSE i \in 0..(n - 1) : BitRev(i, bits) = r]]

\* what stands for `raise ValueError("Could not find primitive ...")`
NoOmega == -1

\* for g in range(2, q): ...; raise ValueError
RECURSIVE FindOmegaFrom(_, _, _)
FindOmegaFrom(g, n, q) ==
    IF g >= q THEN NoOmega
    ELSE LET omega == PowMod(g, (q - 1) \div n, q)
         IN  IF PowMod(omega, n \div 2, q) # 1 THEN omega
             ELSE FindOmegaFrom(g + 1, n, q)

\* what stands for the AssertionError of `assert (q - 1) % n == 0`
NotDividing == -2

\* what stands for the ZeroDivisionError of (q - 1) % n when n = 0
DivisionByZero == -3

\* _find_omega(n, q): the assertion, then the loop
find_omega(n, q) ==
    IF n = 0 THEN DivisionByZero
    ELSE IF (q - 1) % n # 0 THEN NotDividing
    ELSE FindOmegaFrom(2, n, q)

\* x & y on non-negative integers
RECURSIVE BitAnd(_, _)
BitAnd(x, y) ==
    IF x = 0 \/ y = 0 THEN 0
    ELSE (x % 2) * (y % 2) + 2 * BitAnd(x \div 2, y \div 2)

\* the truth value of n & (n - 1): every negative n gives a negative result,
\* and 0 & -1 is 0
AndPredecessor(n) ==
    IF n < 0 THEN TRUE
    ELSE IF n = 0 THEN FALSE
    ELSE BitAnd(n, n - 1) # 0

\* mutant: the assertion n | q - 1 is not made
ConstructUnasserted(n, q) ==
    IF AndPredecessor(n) THEN [error |-> "ValueError"]
    ELSE IF n = DEFAULT_N /\ q = DEFAULT_Q
    THEN [n |-> n, q |-> q, omega |-> OMEGA]
    ELSE IF n = 0 THEN [error |-> "ZeroDivisionError"]
    ELSE IF FindOmegaFrom(2, n, q) = NoOmega THEN [error |-> "ValueError"]
    ELSE [n |-> n, q |-> q, omega |-> FindOmegaFrom(2, n, q)]

\* PolynomialRing(n, q): the ring object, or the error the constructor ends
\* with; the errors of _find_omega pass through __init__.
Construct(n, q) ==
    IF AndPredecessor(n) THEN [error |-> "ValueError"]
    ELSE IF n = DEFAULT_N /\ q = DEFAULT_Q
    THEN [n |-> n, q |-> q, omega |-> OMEGA]
    ELSE IF find_omega(n, q) = DivisionByZero
    THEN [error |-> "ZeroDivisionError"]
    ELSE IF find_omega(n, q) = NotDividing THEN [error |-> "AssertionError"]
    ELSE IF find_omega(n, q) = NoOmega THEN [error |-> "ValueError"]
    ELSE [n |-> n, q |-> q, omega |-> find_omega(n, q)]

RingOmega == IF N = DEFAULT_N /\ Q = DEFAULT_Q THEN OMEGA ELSE find_omega(N, Q)

\* np.mod(poly, self.q)
reduce(poly) == [i \in DOMAIN poly |-> poly[i] % Q]

\* (a + b) % self.q
add(a, b) == [i \in DOMAIN a |-> (a[i] + b[i]) % Q]

\* mutant: the difference is returned as it is
sub_unreduced(a, b) == [i \in DOMAIN a |-> a[i] - b[i]]

\* (a - b) % self.q
sub(a, b) == [i \in DOMAIN a |-> (a[i] - b[i]) % Q]

\* the inner loop of ntt: for j in range(half)
RECURSIVE NttInner(_, _, _, _, _, _)
NttInner(a, start, j, half, wj, w_len) ==
    IF j >= half THEN a
    ELSE LET u == a[start + j]
             v == (a[start + j + half] * wj) % Q
             a1 == [a EXCEPT ![start + j] = (u + v) % Q]
             a2 == [a1 EXCEPT ![start + j + half] = (u - v) % Q]
         IN  NttInner(a2, start, j + 1, half, (wj * w_len) % Q, w_len)

\* for start in range(0, n, length)
RECURSIVE NttBlocks(_, _, _, _)
NttBlocks(a, start, length, w_len) ==
    IF start >= N THEN a
    ELSE NttBlocks(NttInner(a, start, 0, length \div 2, 1, w_len),
                   start + length, length, w_len)

\* while length <= n: ... length <<= 1
RECURSIVE NttStages(_, _)
NttStages(a, length) ==
    IF length > N THEN a
    ELSE NttStages(
            NttBlocks(a, 0, length, PowMod(RingOmega, N \div length, Q)),
            2 * length)

\* mutant: the butterflies run on the input in its given order
ntt_unpermuted(poly) == NttStages(poly, 2)

ntt(poly) == NttStages(bit_reverse_copy(poly, N), 2)

\* the inner loop of inv_ntt: for j in range(half)
RECURSIVE InvInner(_, _, _, _, _, _)
InvInner(a, start, j, half, wj, w_len) ==
    IF j >= half THEN a
    ELSE LET u == a[start + j]
             v == a[start + j + half]
             a1 == [a EXCEPT ![start + j] = (u + v) % Q]
             a2 == [a1 EXCEPT ![start + j + half] = ((u - v) * wj) % Q]
         IN  InvInner(a2, start, j + 1, half, (wj * w_len) % Q, w_len)

RECURSIVE InvBlocks(_, _, _, _)
InvBlocks(a, start, length, w_len) ==
    IF start >= N THEN a
    ELSE InvBlocks(InvInner(a, start, 0, length \div 2, 1, w_len),
                   start + length, length, w_len)

\* omega_inv = pow(self._omega, q - 2, q)
OmegaInv == PowMod(RingOmega, Q - 2, Q)

\* n_inv = pow(n, q - 2, q)
NInv == PowMod(N, Q - 2, Q)

\* while length >= 2: ... length >>= 1
RECURSIVE InvStages(_, _)
InvStages(a, length) ==
    IF length < 2 THEN a
    ELSE InvStages(
            InvBlocks(a, 0, length, PowMod(OmegaInv, N \div length, Q)),
            length \div 2)

\* mutant: the output is not scaled by n^-1
inv_ntt_unscaled(poly_ntt) == bit_reverse_copy(InvStages(poly_ntt, N), N)

inv_ntt(poly_ntt) ==
    LET a == bit_reverse_copy(InvStages(poly_ntt, N), N)
    IN  [i \in DOMAIN a |-> (a[i] * NInv) % Q]

\* mutant: the second operand is squared
point_mul_skewed(a_ntt, b_ntt) ==
    [i \in DOMAIN a_ntt |-> (a_ntt[i] * b_ntt[i] * b_ntt[i]) % Q]

\* (a_ntt * b_ntt) % self.q
point_mul(a_ntt, b_ntt) == [i \in DOMAIN a_ntt |-> (a_ntt[i] * b_ntt[i]) % Q]

\* mutant: the product is taken with the second operand only
poly_mul_second(a, b) == inv_ntt(point_mul(ntt(b), ntt(b)))

poly_mul(a, b) == inv_ntt(point_mul(ntt(a), ntt(b)))

\* bool(np.all(recovered == poly % self.q))
verify_round_trip(poly) ==
    inv_ntt(ntt(poly)) = [i \in DOMAIN poly |-> poly[i] % Q]

----------------------------------------------------------------------------
(* hardware/memory.py *)

RECURSIVE PopCount(_)
PopCount(w) == IF w = 0 THEN 0 ELSE (w % 2) + PopCount(w \div 2)

RECURSIVE HwFrom(_, _)
HwFrom(arr, i) ==
    IF i \notin DOMAIN arr THEN 0
    ELSE PopCount(arr[i] % 65536) + HwFrom(arr, i + 1)

\* mutant: only the first word is counted
hamming_weight_first(arr) ==
    IF 0 \in DOMAIN arr THEN PopCount(arr[0] % 65536) ELSE 0

\* words = arr.astype(np.uint16); total += bin(int(w)).count('1')
hamming_weight_array(arr) == HwFrom(arr, 0)

\* self.storage.get(address, None) is not None
Present(st, address) == address \in DOMAIN st

\* mutant: nothing is stored
StoreAtDropped(st, address, data) == st

\* self.storage[address] = <array>
StoreAt(st, address, data) ==
    [a \in (DOMAIN st) \cup {address} |-> IF a = address THEN data ELSE st[a]]

\* mutant: the array itself is stored, not a copy
StoredAliasShared(alias, address) == alias \cup {address}

\* write_checkpoint stores data.copy(): the array kept at `address` is a new
\* object, so the caller's array is not (or no longer) the one stored there.
StoredAlias(alias, address) == alias \ {address}

\* read_checkpoint returns self.storage.get(address): the stored array itself.
ReadAlias(address) == {address}

\* mutant: the log keeps the newest sample only
LeakNewestOnly(trace, data, time) == << <<time, hamming_weight_array(data)>> >>

\* a sample stamped with its position in the log instead of the time
LeakStampedByIndex(trace, data, time) ==
    Append(trace, <<Len(trace), hamming_weight_array(data)>>)

\* self.leakage_trace.append((time, hw))
Leak(trace, data, time) == Append(trace, <<time, hamming_weight_array(data)>>)

\* an in-place store into the caller's array is a store into every stored
\* array that is the same object
InPlace(st, alias, value) ==
    [a \in DOMAIN st |-> IF a \in alias THEN value ELSE st[a]]

----------------------------------------------------------------------------
(* simpy events, as hardware/power.py uses them *)

\* env.event(): not triggered, nobody waiting
FreshEvent == [triggered |-> FALSE, callbacks |-> {}]

\* mutant: the succeeded event stays exposed
ReplacedEventLatched(ev) == [triggered |-> TRUE, callbacks |-> {}]

\* self.power_x = self.env.event(), after self.power_x.succeed()
ReplacedEvent(ev) == FreshEvent

\* mutant: the process is not put among the callbacks of the event
YieldedUnsubscribed(ev, p) == ev

\* `yield ev` by process p: p is added to the callbacks of a pending event;
\* an event that has already been processed resumes p at once
Yielded(ev, p) ==
    IF ev.triggered THEN ev ELSE [ev EXCEPT !.callbacks = @ \cup {p}]

ResumesAtOnce(ev) == ev.triggered

\* ev.succeed(): the processes in ev.callbacks are scheduled to resume
Notified(ev, p) == p \in ev.callbacks

----------------------------------------------------------------------------
(* scheduler.py *)

total_layers == bit_length(N) - 1

\* mutant: the counter blob always holds 0
StateBlobZero(k) == [i \in 0..0 |-> 0]

\* np.array([k]): the one-element vector kept at STATE_ADDR
StateBlob(k) == [i \in 0..0 |-> k]

\* layers.append((length, half, w_len))
LayerLength(k) == 2 ^ (k + 1)
LayerWLen(k) == PowMod(RingOmega, N \div LayerLength(k), Q)

\* for j in range(half): the butterfly on working[start+j], working[start+j+half]
RECURSIVE TileInner(_, _, _, _, _, _)
TileInner(w, start, j, half, wj, w_len) ==
    IF j >= half THEN w
    ELSE LET u == w[start + j]
             v == (w[start + j + half] * wj) % Q
             w1 == [w EXCEPT ![start + j] = (u + v) % Q]
             w2 == [w1 EXCEPT ![start + j + half] = (u - v) % Q]
         IN  TileInner(w2, start, j + 1, half, (wj * w_len) % Q, w_len)

RECURSIVE TileBlocks(_, _, _, _)
TileBlocks(w, start, length, w_len) ==
    IF start >= N THEN w
    ELSE TileBlocks(TileInner(w, start, 0, length \div 2, 1, w_len),
                    start + length, length, w_len)

\* one tessera: the butterfly stage of layer k applied to the working buffer
Butterfly(w, k) == TileBlocks(w, 0, LayerLength(k), LayerWLen(k))

\* mutant: no layer is skipped
SkipNothing(k, step) == FALSE

\* mutant: the layer checkpointed last is not skipped
SkipLayerBelowLast(k, step) == k < step - 1

\* if layer_idx < self.current_step: continue
SkipLayer(k, step) == k < step

\* the first layer index the loop does not skip, from k on (total_layers if none)
RECURSIVE NextLayer(_, _)
NextLayer(k, step) ==
    IF k >= total_layers THEN total_layers
    ELSE IF SkipLayer(k, step) THEN NextLayer(k + 1, step)
    ELSE k

\* mutant: the input is taken as it is, without the bit-reversal
StartWorkingUnpermuted(poly) == poly

\* the working buffer built at startup from the (given or restored) polynomial
StartWorking(poly) == bit_reverse_copy(poly, N)

\* self.restores += 1
CountRestore(r) == r + 1

\* mutant: the failure is not counted
CountFailureStale(f) == f

\* self.power_failures += 1
CountFailure(f) == f + 1

\* mutant: the completed layer is not counted
CountCompletedStale(c) == c

\* self.completed_layers += 1
CountCompleted(c) == c + 1

\* mutant: the counter is advanced by two
NextStepDouble(k) == k + 2

\* mutant: the counter is not advanced
NextStepStale(k) == k

\* np.array([layer_idx + 1])
NextStep(k) == k + 1

\* The loop from layer k up to its next yield, or to the return: the skip
\* test, the power gate, and the position the generator suspends at.
EnterLoop(k, step, failures) ==
    LET k1 == NextLayer(k, step)
    IN  /\ layer_idx' = k1
        /\ IF k1 >= total_layers
           THEN /\ pc' = "done" /\ power_failures' = failures
                /\ UNCHANGED << power_restored, wake >>
           ELSE IF ~is_powered'
           THEN /\ pc' = "await" /\ power_failures' = CountFailure(failures)
                /\ power_restored' = Yielded(power_restored, "task")
                /\ wake' = ResumesAtOnce(power_restored)
           ELSE /\ pc' = "compute" /\ power_failures' = failures
                /\ UNCHANGED << power_restored, wake >>

\* First resumption of the generator: startup (read STATE_ADDR, adopt the
\* saved data if present, bit-reverse) and the loop up to its first yield.
Start ==
    /\ pc = "new"
    /\ LET step == IF Present(storage, STATE_ADDR)
                   THEN storage[STATE_ADDR][0] ELSE current_step
           addr == DATA_BASE + step - 1
           restored == Present(storage, STATE_ADDR) /\ Present(storage, addr)
           poly == IF restored THEN storage[addr] ELSE poly_data
       IN  /\ current_step' = step
           /\ restores' = IF restored THEN CountRestore(restores) ELSE restores
           /\ working' = StartWorking(poly)
           /\ working_alias' = {}
           /\ is_powered' = is_powered
           /\ EnterLoop(0, step, power_failures)
    /\ start_storage' = storage
    /\ UNCHANGED << storage, leakage_trace, poly_data, completed_layers,
                    now, runs, origin, write_log, written, power_lost,
                    edge_log, args, result >>

\* mutant: after the wait the task starts again from the permuted input
ResumeFromInput ==
    /\ pc = "await"
    /\ wake
    /\ working' = StartWorking(poly_data)
    /\ working_alias' = {}
    /\ restores' = CountRestore(restores)
    /\ wake' = FALSE
    /\ pc' = "compute"
    /\ UNCHANGED << storage, leakage_trace, is_powered, poly_data, layer_idx,
                    current_step, completed_layers, power_failures, now, runs,
                    origin, start_storage, write_log, written, power_lost,
                    power_restored, edge_log, args, result >>

\* Resumption from `yield self.power.power_restored`: reload the working
\* buffer from the previous layer's checkpoint, then yield the compute timeout.
Resume ==
    /\ pc = "await"
    /\ wake
    /\ LET addr == DATA_BASE + layer_idx - 1
           reload == layer_idx > 0 /\ Present(storage, addr)
       IN  /\ working' = IF reload THEN storage[addr] ELSE working
           /\ working_alias' = IF reload THEN ReadAlias(addr) ELSE working_alias
           /\ restores' = IF reload THEN CountRestore(restores) ELSE restores
    /\ wake' = FALSE
    /\ pc' = "compute"
    /\ UNCHANGED << storage, leakage_trace, is_powered, poly_data, layer_idx,
                    current_step, completed_layers, power_failures, now, runs,
                    origin, start_storage, write_log, written, power_lost,
                    power_restored, edge_log, args, result >>

\* Resumption from the compute timeout: the butterfly stage, in place, then
\* yield the checkpoint timeout.
ComputeDone ==
    /\ pc = "compute"
    /\ now' = now + COMPUTE_COST_PER_LAYER
    /\ working' = Butterfly(working, layer_idx)
    /\ storage' = InPlace(storage, working_alias, working')
    /\ pc' = "checkpoint"
    /\ UNCHANGED << leakage_trace, is_powered, wake, poly_data, working_alias,
                    layer_idx, current_step, completed_layers, power_failures,
                    restores, runs, origin, start_storage, write_log, written,
                    power_lost, power_restored, edge_log, args, result >>

\* Resumption from the checkpoint timeout: the data write, the counter
\* write, the advance, and the loop up to its next yield or the return.
CheckpointDone ==
    /\ pc = "checkpoint"
    /\ now' = now + CHECKPOINT_COST_PER_LAYER
    /\ LET data_addr == DATA_BASE + layer_idx
           step_blob == StateBlob(NextStep(layer_idx))
           st1 == StoreAt(storage, data_addr, working)
           st2 == StoreAt(st1, STATE_ADDR, step_blob)
       IN  /\ storage' = st2
           /\ working_alias' =
                  StoredAlias(working_alias, data_addr) \ {STATE_ADDR}
           /\ leakage_trace' =
                  Leak(Leak(leakage_trace, working, now'), step_blob, now')
           /\ write_log' = write_log \o << data_addr, STATE_ADDR >>
           /\ written' = StoreAt(StoreAt(written, data_addr, working),
                                 STATE_ADDR, step_blob)
           /\ current_step' = NextStep(layer_idx)
           /\ completed_layers' = CountCompleted(completed_layers)
           /\ is_powered' = is_powered
           /\ EnterLoop(layer_idx + 1, current_step', power_failures)
    /\ UNCHANGED << poly_data, working, restores, runs, origin,
                    start_storage, power_lost, edge_log, args, result >>

----------------------------------------------------------------------------
(* hardware/power.py *)

\* the variables the power process never touches
task_vars == << storage, leakage_trace, pc, poly_data, working, working_alias,
                layer_idx, current_step, completed_layers, power_failures,
                restores, runs, origin, start_storage, write_log, written,
                args, result >>

\* mutant: the failure edge fires but the device is still reported powered
LostEdgeStillPowered ==
    /\ is_powered
    /\ ~wake
    /\ is_powered' = TRUE
    /\ wake' = Notified(power_lost, "task")
    /\ power_lost' = ReplacedEvent(power_lost)
    /\ UNCHANGED << task_vars, now, power_restored >>

\* self.is_powered = False; self.power_lost.succeed(); self.power_lost =
\* self.env.event().  A process that was resumed by an event runs before
\* simulated time advances, so no edge occurs while a wake-up is pending.
LostEdge ==
    /\ is_powered
    /\ ~wake
    /\ is_powered' = FALSE
    /\ wake' = Notified(power_lost, "task")
    /\ power_lost' = ReplacedEvent(power_lost)
    /\ UNCHANGED << task_vars, now, power_restored >>

\* mutant: the event is replaced before it is triggered, so the waiting task
\* is never scheduled
RestoredEdgeUnheard ==
    /\ ~is_powered
    /\ ~wake
    /\ is_powered' = TRUE
    /\ power_restored' = ReplacedEvent(power_restored)
    /\ UNCHANGED << task_vars, now, wake, power_lost >>

\* self.is_powered = True; self.power_restored.succeed(); self.power_restored
\* = self.env.event(): a task suspended on power_restored is scheduled to
\* resume, at the time of the restore.
RestoredEdge ==
    /\ ~is_powered
    /\ ~wake
    /\ is_powered' = TRUE
    /\ IF Notified(power_restored, "task")
       THEN /\ wake' = TRUE
            /\ \E d \in 1..MaxWait : now' = now + d
       ELSE UNCHANGED << wake, now >>
    /\ power_restored' = ReplacedEvent(power_restored)
    /\ UNCHANGED << task_vars, power_lost >>

\* the edges as the scheduler's run sees them
PowerLost == LostEdge /\ UNCHANGED edge_log

PowerRestored == RestoredEdge /\ UNCHANGED edge_log

----------------------------------------------------------------------------
(* Initial states *)

Indices == 0..(N - 1)

\* the polynomials given to run_atomic_ntt: those of degree below n/2 with
\* coefficients in 0..MaxCoeff, zero-padded to length n
InputPolys ==
    { [i \in Indices |-> IF i \in DOMAIN c THEN c[i] ELSE 0] :
          c \in [0..((N \div 2) - 1) -> 0..MaxCoeff] }

\* a buffer a host may have placed in the memory beforehand
FakeBlobs == { [i \in Indices |-> (i + 1) % Q] }

EmptyStorage == << >>

\* A memory that was prepared before the run: a step counter s at STATE_ADDR
\* and, or not, a buffer in the data slot the counter points back to.
Prepared ==
    { StoreAt(EmptyStorage, STATE_ADDR, StateBlob(s)) :
          s \in 0..(total_layers + 1) }
    \cup
    { StoreAt(StoreAt(EmptyStorage, DATA_BASE + s - 1, b),
              STATE_ADDR, StateBlob(s)) :
          s \in 0..(total_layers + 1), b \in FakeBlobs }

InitStorages == {EmptyStorage} \cup Prepared

\* The log a memory has once st was put into it with
\* nvm.write_checkpoint(addr, data, 0.0): one sample per write, the buffer
\* (if any) before the counter.
PreparedTrace(st) ==
    LET slots == (DOMAIN st) \ {STATE_ADDR}
        buffers == IF slots = {} THEN << >>
                   ELSE Leak(<< >>, st[CHOOSE a \in slots : TRUE], 0)
    IN  IF Present(st, STATE_ADDR) THEN Leak(buffers, st[STATE_ADDR], 0)
        ELSE buffers

Init ==
    /\ storage \in InitStorages
    /\ leakage_trace = PreparedTrace(storage)
    /\ is_powered = TRUE
    /\ wake = FALSE
    /\ pc = "new"
    /\ poly_data \in InputPolys
    /\ working = << >>
    /\ working_alias = {}
    /\ layer_idx = 0
    /\ current_step = 0
    /\ completed_layers = 0
    /\ power_failures = 0
    /\ restores = 0
    /\ now = 0
    /\ runs = 0
    /\ origin = storage
    /\ start_storage = storage
    /\ write_log = << >>
    /\ written = storage
    /\ power_lost = FreshEvent
    /\ power_restored = FreshEvent
    /\ edge_log = << >>
    /\ args = << >>
    /\ result = << >>

----------------------------------------------------------------------------
(* The host: env.run(until=T), and what may follow it *)

Suspended == pc \in {"await", "compute", "checkpoint"}

\* cmd_run called again after env.run(until=T) has returned, with the task
\* suspended or finished.  (The stop event is served before any other event
\* of time T, so no wake-up is pending at that moment.)  Every object is
\* built anew: the environment, the ring, the power source, the memory
\* (empty, with an empty leakage log), the scheduler, and a new random
\* polynomial.
Restart ==
    /\ pc \in {"await", "compute", "checkpoint", "done"}
    /\ ~wake
    /\ runs < MaxRuns
    /\ runs' = runs + 1
    /\ pc' = "new"
    /\ storage' = EmptyStorage
    /\ leakage_trace' = << >>
    /\ poly_data' \in InputPolys
    /\ is_powered' = TRUE
    /\ wake' = FALSE
    /\ working' = << >>
    /\ working_alias' = {}
    /\ layer_idx' = 0
    /\ current_step' = 0
    /\ completed_layers' = 0
    /\ power_failures' = 0
    /\ restores' = 0
    /\ now' = 0
    /\ write_log' = << >>
    /\ written' = EmptyStorage
    /\ origin' = EmptyStorage
    /\ start_storage' = EmptyStorage
    /\ power_lost' = FreshEvent
    /\ power_restored' = FreshEvent
    /\ UNCHANGED << edge_log, args, result >>

\* The host of the specification (no host of the repository does this): a
\* run bounded by run_until(T) is abandoned at a suspension point, and a new
\* environment, power source and scheduler are built on the SAME memory;
\* run_atomic_ntt is spawned with the same polynomial.
Reboot ==
    /\ Suspended
    /\ ~wake
    /\ runs < MaxRuns
    /\ runs' = runs + 1
    /\ pc' = "new"
    /\ is_powered' = TRUE
    /\ wake' = FALSE
    /\ working' = << >>
    /\ working_alias' = {}
    /\ layer_idx' = 0
    /\ current_step' = 0
    /\ completed_layers' = 0
    /\ power_failures' = 0
    /\ restores' = 0
    /\ now' = 0
    /\ write_log' = << >>
    /\ start_storage' = storage
    /\ power_lost' = FreshEvent
    /\ power_restored' = FreshEvent
    /\ UNCHANGED << storage, leakage_trace, poly_data, origin, written,
                    edge_log, args, result >>

----------------------------------------------------------------------------
(* The scheduler with its power source, under the host *)

Next ==
    \/ Start
    \/ Resume
    \/ ComputeDone
    \/ CheckpointDone
    \/ PowerLost
    \/ PowerRestored
    \/ Restart

Spec == Init /\ [][Next]_vars

\* a run on an empty memory under the host of the specification
RebootInit == Init /\ storage = EmptyStorage

RebootNext ==
    \/ Start
    \/ Resume
    \/ ComputeDone
    \/ CheckpointDone
    \/ PowerLost
    \/ PowerRestored
    \/ Reboot

RebootSpec == RebootInit /\ [][RebootNext]_vars

----------------------------------------------------------------------------
(* A host driving the memory directly: write_checkpoint and read_checkpoint *)
(* called on an array the host holds and stores into in place.              *)

HostIndices == 0..1
HostBlobs == [HostIndices -> 0..MaxCoeff]
HostAddrs == {DATA_BASE, DATA_BASE + 1}

HostInit ==
    /\ storage = EmptyStorage
    /\ leakage_trace = << >>
    /\ is_powered = TRUE
    /\ wake = FALSE
    /\ pc = "host"
    /\ poly_data = << >>
    /\ working \in HostBlobs
    /\ working_alias = {}
    /\ layer_idx = 0
    /\ current_step = 0
    /\ completed_layers = 0
    /\ power_failures = 0
    /\ restores = 0
    /\ now = 0
    /\ runs = 0
    /\ origin = storage
    /\ start_storage = storage
    /\ write_log = << >>
    /\ written = storage
    /\ power_lost = FreshEvent
    /\ power_restored = FreshEvent
    /\ edge_log = << >>
    /\ args = << >>
    /\ result = << >>

\* nvm.write_checkpoint(address, working, time)
HostWrite ==
    /\ pc = "host"
    /\ Len(leakage_trace) < MaxWrites
    /\ \E address \in HostAddrs :
          /\ storage' = StoreAt(storage, address, working)
          /\ working_alias' = StoredAlias(working_alias, address)
          /\ leakage_trace' = Leak(leakage_trace, working, now)
          /\ written' = StoreAt(written, address, working)
          /\ write_log' = Append(write_log, address)
    /\ now' = now + 1
    /\ UNCHANGED << is_powered, wake, pc, poly_data, working, layer_idx,
                    current_step, completed_layers, power_failures, restores,
                    runs, origin, start_storage, power_lost, power_restored,
                    edge_log, args, result >>

\* working[i] = v : an in-place store into the array the host holds
HostMutate(i, v) ==
    /\ pc = "host"
    /\ working[i] # v
    /\ working' = [working EXCEPT ![i] = v]
    /\ storage' = InPlace(storage, working_alias, working')
    /\ UNCHANGED << leakage_trace, is_powered, wake, pc, poly_data,
                    working_alias, layer_idx, current_step, completed_layers,
                    power_failures, restores, now, runs, origin,
                    start_storage, write_log, written, power_lost,
                    power_restored, edge_log, args, result >>

\* working = nvm.read_checkpoint(address), when it is not None
HostRead ==
    /\ pc = "host"
    /\ \E address \in HostAddrs :
          /\ Present(storage, address)
          /\ working' = storage[address]
          /\ working_alias' = ReadAlias(address)
    /\ UNCHANGED << storage, leakage_trace, is_powered, wake, pc, poly_data,
                    layer_idx, current_step, completed_layers, power_failures,
                    restores, now, runs, origin, start_storage, write_log,
                    written, power_lost, power_restored, edge_log, args, result >>

HostStore == \E i \in HostIndices, v \in 0..MaxCoeff : HostMutate(i, v)

\* writes, and stores into the array that was written
WriteNext == HostWrite \/ HostStore

WriteSpec == HostInit /\ [][WriteNext]_vars

\* writes, reads, and stores into the array written or returned
MemoryNext == HostWrite \/ HostStore \/ HostRead

MemorySpec == HostInit /\ [][MemoryNext]_vars

----------------------------------------------------------------------------
(* The power process alone, with one subscriber process that may yield on   *)
(* either exposed event at any moment; every step is recorded in edge_log.  *)

PowerInit ==
    /\ storage = EmptyStorage
    /\ leakage_trace = << >>
    /\ is_powered = TRUE
    /\ wake = FALSE
    /\ pc = "idle"
    /\ poly_data = << >>
    /\ working = << >>
    /\ working_alias = {}
    /\ layer_idx = 0
    /\ current_step = 0
    /\ completed_layers = 0
    /\ power_failures = 0
    /\ restores = 0
    /\ now = 0
    /\ runs = 0
    /\ origin = storage
    /\ start_storage = storage
    /\ write_log = << >>
    /\ written = storage
    /\ power_lost = FreshEvent
    /\ power_restored = FreshEvent
    /\ edge_log = << >>
    /\ args = << >>
    /\ result = << >>

Recorded(what) ==
    /\ Len(edge_log) < MaxSignals
    /\ edge_log' = Append(edge_log, what)

\* resumption of _power_cycle_process from the ON timeout
CycleOff == LostEdge /\ Recorded("lost")

\* resumption of _power_cycle_process from the OFF timeout
CycleOn == RestoredEdge /\ Recorded("restored")

subscriber_frame == << storage, leakage_trace, is_powered, poly_data, working,
                       working_alias, layer_idx, current_step,
                       completed_layers, power_failures, restores, now, runs,
                       origin, start_storage, write_log, written, args,
                       result >>

\* the subscriber executes `yield power.power_restored`
AwaitRestored ==
    /\ pc = "idle"
    /\ pc' = "await"
    /\ power_restored' = Yielded(power_restored, "task")
    /\ wake' = ResumesAtOnce(power_restored)
    /\ Recorded("await")
    /\ UNCHANGED << subscriber_frame, power_lost >>

\* the subscriber executes `yield power.power_lost`
AwaitLost ==
    /\ pc = "idle"
    /\ pc' = "await_lost"
    /\ power_lost' = Yielded(power_lost, "task")
    /\ wake' = ResumesAtOnce(power_lost)
    /\ Recorded("await_lost")
    /\ UNCHANGED << subscriber_frame, power_restored >>

\* the subscriber is resumed by the event it yielded on
Resumed ==
    /\ pc \in {"await", "await_lost"}
    /\ wake
    /\ wake' = FALSE
    /\ pc' = "idle"
    /\ Recorded("resumed")
    /\ UNCHANGED << subscriber_frame, power_lost, power_restored >>

PowerNext == CycleOff \/ CycleOn \/ AwaitRestored \/ AwaitLost \/ Resumed

PowerSpec == PowerInit /\ [][PowerNext]_vars

----------------------------------------------------------------------------
(* A host calling the pure functions: _hamming_weight_array on a blob, and  *)
(* the operations of a PolynomialRing(N, Q) on vectors.                     *)

call_frame == << storage, leakage_trace, is_powered, wake, poly_data, working,
                 working_alias, layer_idx, current_step, completed_layers,
                 power_failures, restores, now, runs, origin, start_storage,
                 write_log, written, power_lost, power_restored, edge_log >>

CallInit(operands) ==
    /\ storage = EmptyStorage
    /\ leakage_trace = << >>
    /\ is_powered = TRUE
    /\ wake = FALSE
    /\ pc = "call"
    /\ poly_data = << >>
    /\ working = << >>
    /\ working_alias = {}
    /\ layer_idx = 0
    /\ current_step = 0
    /\ completed_layers = 0
    /\ power_failures = 0
    /\ restores = 0
    /\ now = 0
    /\ runs = 0
    /\ origin = storage
    /\ start_storage = storage
    /\ write_log = << >>
    /\ written = storage
    /\ power_lost = FreshEvent
    /\ power_restored = FreshEvent
    /\ edge_log = << >>
    /\ args \in operands
    /\ result = << >>

\* the call returns: its value is kept, the operands are not modified
Returned(name, value) ==
    /\ pc = "call"
    /\ pc' = name
    /\ result' = value
    /\ UNCHANGED << call_frame, args >>

\* int64 words: zero, one bit, a coefficient, all sixteen bits, a value above
\* 2^16, a negative value
Words == {0, 1, 3329, 65535, 65541, -1}

\* the blobs of length 0..MaxLen over Words
Blobs == UNION { [0..(len - 1) -> Words] : len \in 0..MaxLen }

WeightInit == CallInit({ << b >> : b \in Blobs })

CallHammingWeight == Returned("hamming_weight", hamming_weight_array(args[1]))

WeightSpec == WeightInit /\ [][CallHammingWeight]_vars

\* coefficients of the ring operands: 0..MaxCoeff and q - 1
RingCoeffs == (0..MaxCoeff) \cup {Q - 1}

\* u X^i with a single coefficient
Monomials == { [k \in Indices |-> IF k = i THEN u ELSE 0] :
                   i \in Indices, u \in RingCoeffs }

\* u X^i + v X^j
Binomials == { [k \in Indices |-> IF k = i THEN u ELSE IF k = j THEN v ELSE 0] :
                   i \in Indices, j \in Indices, u \in RingCoeffs,
                   v \in RingCoeffs }

\* vectors with no zero entry
Dense == { [k \in Indices |-> (c * (k + 1)) % Q] : c \in 1..MaxCoeff }
         \cup { [k \in Indices |-> Q - 1] }

RingInit ==
    CallInit({ << a, b >> : a \in Binomials \cup Dense, b \in Monomials })

CallNtt == Returned("ntt", ntt(args[1]))

\* ring.inv_ntt applied to what ring.ntt returned
CallInvNtt ==
    /\ pc = "ntt"
    /\ pc' = "inv_ntt"
    /\ result' = inv_ntt(result)
    /\ UNCHANGED << call_frame, args >>

CallVerifyRoundTrip ==
    Returned("verify_round_trip", verify_round_trip(args[1]))

CallPolyMul == Returned("poly_mul", poly_mul(args[1], args[2]))

RingNext == CallNtt \/ CallInvNtt \/ CallVerifyRoundTrip \/ CallPolyMul

RingSpec == RingInit /\ [][RingNext]_vars

\* three operands, for products of products
TripleInit ==
    CallInit({ << a, b, c >> : a \in Monomials \cup Dense, b \in Monomials,
                               c \in Monomials })

CallPointMul == Returned("point_mul", point_mul(args[1], args[2]))

\* ring.poly_mul(ring.poly_mul(a, b), c): the second call, on what the first
\* returned
CallPolyMulAgain ==
    /\ pc = "poly_mul"
    /\ pc' = "poly_mul_left"
    /\ result' = poly_mul(result, args[3])
    /\ UNCHANGED << call_frame, args >>

TripleNext == CallPointMul \/ CallPolyMul \/ CallPolyMulAgain

TripleSpec == TripleInit /\ [][TripleNext]_vars

\* operands that are not reduced: coefficients below 0 and from q upwards
WideCoeffs ==
    {0} \cup { 0 - c : c \in 1..MaxCoeff } \cup { 0 - Q - c : c \in 1..MaxCoeff }
        \cup { Q - 1 + c : c \in 1..MaxCoeff }
        \cup { 2 * Q + c : c \in 1..MaxCoeff }

WideVectors ==
    { [k \in Indices |-> IF k = i THEN u ELSE 0] :
          i \in Indices, u \in WideCoeffs }
    \cup { [k \in Indices |-> IF k % 2 = 0 THEN u ELSE Q + k - u] :
          u \in WideCoeffs }

\* the vector [1, 0, ..., 0]
One == [k \in Indices |-> IF k = 0 THEN 1 ELSE 0]

WideInit ==
    CallInit({ << a, b >> : a \in WideVectors, b \in WideVectors \cup {One} })

CallReduce == Returned("reduce", reduce(args[1]))

CallAdd == Returned("add", add(args[1], args[2]))

CallSub == Returned("sub", sub(args[1], args[2]))

\* ring.inv_ntt on a vector that is not the result of ring.ntt
CallInvNttOn == Returned("inv_ntt_on", inv_ntt(args[1]))

WideNext ==
    \/ CallReduce
    \/ CallAdd
    \/ CallSub
    \/ CallNtt
    \/ CallInvNttOn
    \/ CallPointMul
    \/ CallPolyMul

WideSpec == WideInit /\ [][WideNext]_vars

\* PolynomialRing(n, q) for small n (negative ones included) and q >= 2
ConstructInit ==
    CallInit({ << n, q >> : n \in (0 - 2)..MaxN, q \in 2..MaxQ })

CallConstruct == Returned("construct", Construct(args[1], args[2]))

ConstructSpec == ConstructInit /\ [][CallConstruct]_vars

\* _bit_reverse_copy(a, n) on arrays of length n = 2^bits: ramps
\* a[i] = (stride * i + c) mod m, among them np.arange(n), and arrays with
\* repeated entries
ReverseInit ==
    CallInit({ << [i \in 0..(2 ^ bits - 1) |-> (stride * i + c) % m], 2 ^ bits >> :
                   bits \in 0..MaxBits, stride \in 1..MaxStride,
                   c \in 0..MaxCoeff, m \in {3, 5, 2 ^ (MaxBits + 2)} })

CallBitReverseCopy ==
    Returned("bit_reverse_copy", bit_reverse_copy(args[1], args[2]))

\* _bit_reverse_copy(_bit_reverse_copy(a, n), n): the second call, on what
\* the first returned
CallBitReverseCopyAgain ==
    /\ pc = "bit_reverse_copy"
    /\ pc' = "bit_reverse_copy_twice"
    /\ result' = bit_reverse_copy(result, args[2])
    /\ UNCHANGED << call_frame, args >>

ReverseNext == CallBitReverseCopy \/ CallBitReverseCopyAgain

ReverseSpec == ReverseInit /\ [][ReverseNext]_vars

----------------------------------------------------------------------------
(* Liveness: an unbounded run under a power source that always comes back *)

LiveInit == Init /\ storage = EmptyStorage

TaskStep == Start \/ Resume \/ ComputeDone \/ CheckpointDone

LiveNext == TaskStep \/ PowerLost \/ PowerRestored

\* The event loop fires every pending timeout and every triggered event as
\* simulated time advances, and every OFF period of the power process ends.
LiveSpec ==
    /\ LiveInit
    /\ [][LiveNext]_vars
    /\ WF_vars(TaskStep)
    /\ WF_vars(PowerRestored)

----------------------------------------------------------------------------
(* Reference values *)

\* ring.ntt stopped after the stage of the given layer: the butterfly stages
\* of lengths 2 .. 2^(k+1) applied to the bit-reversed polynomial
RECURSIVE NttStagesTo(_, _, _)
NttStagesTo(a, length, last) ==
    IF length > last THEN a
    ELSE NttStagesTo(
            NttBlocks(a, 0, length, PowMod(RingOmega, N \div length, Q)),
            2 * length, last)

PostLayer(k, poly) == NttStagesTo(bit_reverse_copy(poly, N), 2, 2 ^ (k + 1))

FinalAddr == DATA_BASE + total_layers - 1

\* the step the current run started from
StartStep ==
    IF Present(start_storage, STATE_ADDR) THEN start_storage[STATE_ADDR][0]
    ELSE 0

FromEmpty == origin = EmptyStorage

FirstRunFromEmpty == FromEmpty /\ runs = 0

\* the current run found [s] at STATE_ADDR and a buffer at DATA_BASE + s - 1
PreparedStart ==
    /\ pc # "new"
    /\ Present(start_storage, STATE_ADDR)
    /\ StartStep \in 1..total_layers
    /\ Present(start_storage, DATA_BASE + StartStep - 1)

----------------------------------------------------------------------------
(* Claims *)

\* C1: when a run started on an empty memory has completed, under any power
\* schedule, NVM[DATA_BASE + L - 1] equals ring.ntt of the input polynomial.
C1_FinalEqualsNtt ==
    (pc = "done" /\ FirstRunFromEmpty) =>
        /\ Present(storage, FinalAddr)
        /\ storage[FinalAddr] = ntt(poly_data)

C1_Witness ==
    /\ pc = "done" /\ FirstRunFromEmpty
    /\ power_failures >= 1 /\ restores >= 1
    /\ storage[FinalAddr] = ntt(poly_data)
    /\ ntt(poly_data) # poly_data

\* C2: in every suspended state of a run started on an empty memory, if
\* NVM[STATE_ADDR] holds k+1 then NVM[DATA_BASE + k] holds the correct
\* post-layer-k buffer (layers 0..k applied to the bit-reversed input).
C2_CounterMatchesData ==
    (Suspended /\ FirstRunFromEmpty) =>
        \A k \in 0..(total_layers - 1) :
            (Present(storage, STATE_ADDR)
                /\ storage[STATE_ADDR] = StateBlob(k + 1)) =>
            /\ Present(storage, DATA_BASE + k)
            /\ storage[DATA_BASE + k] = PostLayer(k, poly_data)

\* C3: a run abandoned at a suspension point and started again on the same
\* memory completes with NVM[DATA_BASE + L - 1] and the returned buffer equal
\* to those of an uninterrupted execution on the original input.
C3_ResumedRunEquivalent ==
    (pc = "done" /\ FromEmpty /\ runs >= 1) =>
        /\ Present(storage, FinalAddr)
        /\ storage[FinalAddr] = ntt(poly_data)
        /\ working = ntt(poly_data)

\* C4: when every OFF period is followed by an ON period and time is
\* unbounded, a run started on an empty memory eventually terminates with
\* completed_layers = L.
C4_EventuallyCompletes ==
    <>(pc = "done" /\ completed_layers = total_layers)

C4_Witness ==
    /\ pc = "done" /\ completed_layers = total_layers
    /\ power_failures = total_layers

\* C5 (as stated): whenever a run has completed, completed_layers = L and
\* NVM[STATE_ADDR] holds [L].  (Stated for the runs whose memory was empty
\* or held a step counter together with its data slot.)
C5_Original ==
    (pc = "done" /\ (start_storage = EmptyStorage \/ PreparedStart)) =>
        /\ completed_layers = total_layers
        /\ Present(storage, STATE_ADDR)
        /\ storage[STATE_ADDR] = StateBlob(total_layers)

\* C5 (amended): whenever a run of a new scheduler that started from step s0
\* (the value found at STATE_ADDR, 0 when absent), 0 <= s0 <= L, has
\* completed, completed_layers = L - s0 and NVM[STATE_ADDR] holds [L]; in
\* particular completed_layers = L for a run started on an empty memory.
C5_CompletedFromStart ==
    (pc = "done" /\ StartStep \in 0..total_layers) =>
        /\ completed_layers = total_layers - StartStep
        /\ Present(storage, STATE_ADDR)
        /\ storage[STATE_ADDR] = StateBlob(total_layers)

C5_Witness ==
    /\ pc = "done" /\ StartStep > 0 /\ StartStep < total_layers
    /\ completed_layers = total_layers - StartStep
    /\ storage[STATE_ADDR] = StateBlob(total_layers)

\* C6: in every reachable state of a run, for any power schedule and any
\* initial memory, restores <= power_failures + 1.
C6_RestoresBound == restores <= power_failures + 1

C6_Witness ==
    /\ power_failures >= 1
    /\ restores = power_failures + 1

\* the current run found a step counter k > 0 whose data slot is absent
CorruptStart ==
    /\ pc # "new"
    /\ Present(start_storage, STATE_ADDR)
    /\ StartStep > 0
    /\ ~Present(start_storage, DATA_BASE + StartStep - 1)

\* C7: a run that finds NVM[STATE_ADDR] = k > 0 with NVM[DATA_BASE + k - 1]
\* absent stops without executing a butterfly layer and without writing the
\* memory.
C7_CorruptCheckpointFatal ==
    CorruptStart =>
        /\ pc \notin {"checkpoint"}
        /\ completed_layers = 0
        /\ write_log = << >>
        /\ storage = start_storage

\* the writes of layers s..L-1, in order
RECURSIVE WritesFrom(_)
WritesFrom(k) ==
    IF k >= total_layers THEN << >>
    ELSE << DATA_BASE + k, STATE_ADDR >> \o WritesFrom(k + 1)

\* C8: a run on a memory prepared with [s] and a buffer at DATA_BASE + s - 1
\* (0 < s <= L) that never observes power off finishes with restores >= 1 and
\* completed_layers = L - s, having written only for the layers s..L-1.
C8_PreparedRunSkips ==
    (pc = "done" /\ PreparedStart /\ power_failures = 0) =>
        /\ restores >= 1
        /\ completed_layers = total_layers - StartStep
        /\ write_log = WritesFrom(StartStep)
        /\ \A k \in 0..(StartStep - 1) :
              \A i \in DOMAIN write_log : write_log[i] # DATA_BASE + k

C8_Witness ==
    /\ pc = "done" /\ PreparedStart /\ power_failures = 0 /\ runs = 0
    /\ StartStep < total_layers
    /\ restores >= 1
    /\ completed_layers = total_layers - StartStep


\* C9: after any sequence of writes, read(addr) is absent iff addr was never
\* written, and otherwise is the blob of the last write to addr as it was at
\* write time: later writes to addr replace it, writes to other addresses and
\* stores into the written array by the caller do not change it.
C9_ReadReturnsLastWrite ==
    pc = "host" =>
        /\ \A a \in HostAddrs :
              Present(storage, a) <=> (\E i \in DOMAIN write_log : write_log[i] = a)
        /\ \A a \in DOMAIN storage : storage[a] = written[a]

\* a state after an overwrite, with the caller's array changed since the write
C9_Witness ==
    /\ pc = "host"
    /\ write_log = << DATA_BASE, DATA_BASE + 1, DATA_BASE >>
    /\ storage[DATA_BASE] # storage[DATA_BASE + 1]
    /\ working # storage[DATA_BASE]
    /\ storage[DATA_BASE] = written[DATA_BASE]

\* C10: a store into the blob returned by read(addr) leaves what any later
\* read returns unchanged, for every address.
C10_ReturnedBlobIsolated ==
    [][ (pc = "host" /\ working_alias # {} /\ working' # working
            /\ working_alias' = working_alias) => storage' = storage ]_vars

\* the power firings recorded so far, in order
IsFiring(e) == e \in {"lost", "restored"}

Firings == SelectSeq(edge_log, IsFiring)

\* C11: the power model starts ON; lost and restored firings alternate,
\* beginning with lost, and is_powered is false exactly between a lost and the
\* restored that follows it.
C11_PowerAlternates ==
    pc \in {"idle", "await", "await_lost"} =>
        /\ \A i \in 1..Len(Firings) :
              Firings[i] = (IF i % 2 = 1 THEN "lost" ELSE "restored")
        /\ is_powered <=> (Len(Firings) % 2 = 0)
        /\ (edge_log = << >>) => is_powered

C11_Witness ==
    /\ pc = "idle"
    /\ Len(Firings) >= 5
    /\ ~is_powered

\* the index of the last `await` or `await_lost` step before position i
RECURSIVE LastAwait(_)
LastAwait(i) ==
    IF i = 0 THEN 0
    ELSE IF edge_log[i] \in {"await", "await_lost"} THEN i
    ELSE LastAwait(i - 1)

\* the firings of kind `what` strictly between positions a and b
FiredBetween(what, a, b) ==
    { j \in (a + 1)..(b - 1) : edge_log[j] = what }

\* C12: the exposed power_lost and power_restored are always unfulfilled, and
\* a subscriber that yields on one of them is resumed only by a firing of that
\* signal that comes after the yield: one that begins awaiting restored while
\* is_powered is true stays suspended until the next OFF -> ON edge.
C12_SignalsNotLatched ==
    pc \in {"idle", "await", "await_lost"} =>
        /\ ~power_lost.triggered
        /\ ~power_restored.triggered
        /\ \A i \in 1..Len(edge_log) :
              edge_log[i] = "resumed" =>
                  LET a == LastAwait(i)
                  IN  /\ a > 0
                      /\ edge_log[a] = "await" =>
                            Cardinality(FiredBetween("restored", a, i)) = 1
                      /\ edge_log[a] = "await_lost" =>
                            Cardinality(FiredBetween("lost", a, i)) = 1
        /\ (pc = "await" /\ wake) =>
              Cardinality(FiredBetween("restored", LastAwait(Len(edge_log)),
                                       Len(edge_log) + 1)) = 1

\* the subscriber yielded on restored while powered, after an earlier restore;
\* it was resumed only after the next lost and restored
C12_Witness ==
    /\ pc = "idle"
    /\ edge_log = << "lost", "restored", "await", "lost", "restored",
                     "resumed" >>

\* C13: after every completed step of the scheduler, for any initial memory
\* contents, 0 <= current_step <= L.
C13_StepInRange ==
    pc \in {"await", "compute", "checkpoint", "done"} =>
        current_step \in 0..total_layers

\* C14: for the same input and an empty memory, the buffer a completed run
\* returns is the same under every power schedule (it is the buffer of the
\* run that never loses power, ring.ntt of the input); interruptions show only
\* in power_failures and restores, and the task ends normally.
C14_ResultIndependentOfSchedule ==
    (pc = "done" /\ FirstRunFromEmpty) =>
        /\ working = ntt(poly_data)
        /\ completed_layers = total_layers
        /\ current_step = total_layers
        /\ power_failures \in 0..total_layers
        /\ restores \in 0..(total_layers - 1)

\* two schedules: completed runs with and without interruptions
C14_Witness ==
    /\ pc = "done" /\ FirstRunFromEmpty
    /\ power_failures = total_layers
    /\ restores = total_layers - 1
    /\ working = ntt(poly_data)
    /\ working # StartWorking(poly_data)

\* C15: a run from an empty memory that never observes power off makes
\* exactly 2L writes (DATA_BASE + k then STATE_ADDR, for k = 0..L-1), ends
\* with completed_layers = L and leaves a length-n blob at DATA_BASE + L - 1.
C15_UninterruptedWrites ==
    (pc = "done" /\ FirstRunFromEmpty /\ power_failures = 0) =>
        /\ Len(write_log) = 2 * total_layers
        /\ Len(leakage_trace) = 2 * total_layers
        /\ write_log = WritesFrom(0)
        /\ completed_layers = total_layers
        /\ Present(storage, FinalAddr)
        /\ DOMAIN storage[FinalAddr] = Indices

C15_Witness ==
    /\ pc = "done" /\ FirstRunFromEmpty /\ power_failures = 0
    /\ now = total_layers
              * (COMPUTE_COST_PER_LAYER + CHECKPOINT_COST_PER_LAYER)
    /\ Len(write_log) = 2 * total_layers
    /\ DOMAIN storage = {STATE_ADDR} \cup
                        { DATA_BASE + k : k \in 0..(total_layers - 1) }

\* C16: every write(addr, blob, time) appends the one sample
\* (time, hamming_weight(blob)) at the end of the leakage log and leaves the
\* earlier samples as they were; no other operation touches the log, so the
\* log has one sample per write, in the order of the writes.
C16_OneSamplePerWrite ==
    /\ [](pc = "host" => Len(leakage_trace) = Len(write_log))
    /\ [][ pc = "host" =>
             IF write_log' # write_log
             THEN leakage_trace' =
                      leakage_trace \o
                          << <<now, hamming_weight_array(working)>> >>
             ELSE leakage_trace' = leakage_trace ]_vars

\* three writes at times 0, 1, 2 of blobs of weight 0, 2, 1
C16_Witness ==
    /\ pc = "host"
    /\ leakage_trace = << <<0, 0>>, <<1, 2>>, <<2, 1>> >>
    /\ Len(write_log) = 3

\* the number of set bits of w taken as an unsigned 16-bit word
WordWeight(w) ==
    Cardinality({ b \in 0..15 : ((w % (2 ^ 16)) \div (2 ^ b)) % 2 = 1 })

RECURSIVE WeightSum(_, _)
WeightSum(arr, i) ==
    IF i \notin DOMAIN arr THEN 0 ELSE WordWeight(arr[i]) + WeightSum(arr, i + 1)

\* C17: hamming_weight(blob) is the sum over the coefficients of the number of
\* set bits of the coefficient mod 2^16; it is 0 for an all-zero blob and 16k
\* for k words equal to 0xFFFF.
C17_HammingWeight ==
    pc = "hamming_weight" =>
        LET blob == args[1]
            k == Cardinality(DOMAIN blob)
        IN  /\ result = WeightSum(blob, 0)
            /\ (\A i \in DOMAIN blob : blob[i] = 0) => result = 0
            /\ (\A i \in DOMAIN blob : blob[i] = 65535) => result = 16 * k

\* a blob mixing 0xFFFF, a value above 2^16 and a negative value
C17_Witness ==
    /\ pc = "hamming_weight"
    /\ args[1] = [i \in 0..2 |-> IF i = 0 THEN 65535
                                 ELSE IF i = 1 THEN 65541 ELSE -1]
    /\ result = 16 + 2 + 16

\* C18: for every length-n vector x with entries in [0, q),
\* inv_ntt(ntt(x)) = x mod q, and verify_round_trip(x) returns true.
C18_RoundTrip ==
    /\ pc = "inv_ntt" => result = [i \in Indices |-> args[1][i] % Q]
    /\ pc = "verify_round_trip" => result = TRUE

C18_Witness ==
    /\ pc = "inv_ntt"
    /\ args[1] \in Dense
    /\ result = args[1]
    /\ ntt(args[1]) # args[1]

\* coefficient k of the schoolbook product a b reduced modulo X^n + 1: the
\* terms a[i] b[j] with i + j = k, minus those with i + j = k + n
RECURSIVE NegacyclicSum(_, _, _, _)
NegacyclicSum(a, b, k, i) ==
    IF i >= N THEN 0
    ELSE (IF i <= k THEN a[i] * b[k - i] ELSE 0 - a[i] * b[k + N - i])
         + NegacyclicSum(a, b, k, i + 1)

Schoolbook(a, b) == [k \in Indices |-> NegacyclicSum(a, b, k, 0) % Q]

\* C19: poly_mul(a, b) equals the schoolbook product of a and b reduced
\* modulo (X^n + 1) and modulo q.
C19_PolyMulNegacyclic ==
    pc = "poly_mul" => result = Schoolbook(args[1], args[2])

RECURSIVE DftSum(_, _, _)
DftSum(a, k, j) ==
    IF j >= N THEN 0
    ELSE a[j] * PowMod(RingOmega, j * k, Q) + DftSum(a, k, j + 1)

\* C20: for every k in [0, n), ntt(a)[k] = (sum over j of a[j] omega^(j k))
\* mod q, the output being in natural order.
C20_NttIsDft ==
    pc = "ntt" => result = [k \in Indices |-> DftSum(args[1], k, 0) % Q]

C20_Witness ==
    /\ pc = "ntt"
    /\ args[1] \in Dense
    /\ result = [k \in Indices |-> DftSum(args[1], k, 0) % Q]
    /\ result # bit_reverse_copy(result, N)

\* C21: point_mul(a, b) = point_mul(b, a), poly_mul(a, b) = poly_mul(b, a),
\* and poly_mul(poly_mul(a, b), c) = poly_mul(a, poly_mul(b, c)).
C21_MulCommutesAssociates ==
    /\ pc = "point_mul" => result = point_mul(args[2], args[1])
    /\ pc = "poly_mul" => result = poly_mul(args[2], args[1])
    /\ pc = "poly_mul_left" =>
           result = poly_mul(args[1], poly_mul(args[2], args[3]))

\* a product of three operands, two of them distinct monomials of degree > 0
C21_Witness ==
    /\ pc = "poly_mul_left"
    /\ args[1] \in Dense
    /\ args[2] # args[3]
    /\ args[2][0] = 0 /\ args[3][0] = 0
    /\ \E i \in Indices : result[i] # 0
    /\ result = poly_mul(args[1], poly_mul(args[2], args[3]))

\* C22: for every polynomial a, poly_mul(a, one) = a mod q, where one is the
\* vector [1, 0, ..., 0].
C22_MulByOne ==
    (pc = "poly_mul" /\ args[2] = One) =>
        result = [i \in Indices |-> args[1][i] % Q]

C22_Witness ==
    /\ pc = "poly_mul" /\ args[2] = One
    /\ \A i \in Indices : args[1][i] # 0
    /\ \E i \in Indices : args[1][i] < 0
    /\ \E i \in Indices : args[1][i] >= Q
    /\ result = [i \in Indices |-> args[1][i] % Q]

\* C23: reduce, add, sub, ntt, inv_ntt and point_mul return vectors of length
\* n whose every coefficient lies in [0, q), for all integer inputs, unreduced
\* and negative ones included.
C23_ResultsReduced ==
    pc \in {"reduce", "add", "sub", "ntt", "inv_ntt_on", "point_mul"} =>
        /\ DOMAIN result = Indices
        /\ \A i \in Indices : result[i] \in 0..(Q - 1)

\* a difference of a negative and an unreduced operand
C23_Witness ==
    /\ pc = "sub"
    /\ \E i \in Indices : args[1][i] < 0 /\ args[2][i] >= Q
    /\ \E i \in Indices : args[1][i] - args[2][i] < 0 - Q
    /\ \A i \in Indices : result[i] \in 0..(Q - 1)

IsPowerOfTwo(n) == \E e \in 0..n : n = 2 ^ e

Divides(n, m) == \E k \in 0..m : k * n = m

\* C24: PolynomialRing(n, q) ends with an error, and yields no ring, whenever
\* n is not a power of two and whenever n does not divide q - 1.
C24_ConstructionFails ==
    pc = "construct" =>
        ((~IsPowerOfTwo(args[1]) \/ ~Divides(args[1], args[2] - 1)) =>
            /\ "error" \in DOMAIN result
            /\ "omega" \notin DOMAIN result)

\* n = 4 is a power of two that does not divide q - 1 = 6
C24_Witness ==
    /\ pc = "construct"
    /\ args = << 4, 7 >>
    /\ result = [error |-> "AssertionError"]

\* the writes of layers a..b-1, in order: DATA_BASE + k, then STATE_ADDR
RECURSIVE WritesBetween(_, _)
WritesBetween(a, b) ==
    IF a >= b THEN << >>
    ELSE << DATA_BASE + a, STATE_ADDR >> \o WritesBetween(a + 1, b)

\* C25: the writes of a run are, in order, DATA_BASE + k then STATE_ADDR :=
\* k + 1 for the layers k it executed, in increasing k; no state of the run
\* lies between the two writes of a layer, and current_step = k + 1 only once
\* both writes of layer k are made.
C25_WriteOrder ==
    pc \in {"await", "compute", "checkpoint", "done"} =>
        /\ write_log = WritesBetween(StartStep, current_step)
        /\ write_log # << >> =>
              /\ Present(storage, DATA_BASE + current_step - 1)
              /\ storage[STATE_ADDR] = StateBlob(current_step)

C25_Witness ==
    /\ pc = "checkpoint"
    /\ layer_idx = 2
    /\ power_failures >= 1
    /\ write_log = << DATA_BASE, STATE_ADDR, DATA_BASE + 1, STATE_ADDR >>
    /\ storage[STATE_ADDR] = StateBlob(2)

\* C26: the working buffer is bit-reversed only when the run starts at
\* current_step = 0; when startup finds current_step = k > 0 and a blob at
\* DATA_BASE + k - 1, the buffer layer k is computed from is that blob itself.
C26_RestoredBufferNotPermuted ==
    /\ (pc = "compute" /\ start_storage = EmptyStorage /\ layer_idx = 0) =>
           working = bit_reverse_copy(poly_data, N)
    /\ (pc = "compute" /\ PreparedStart /\ layer_idx = StartStep
            /\ completed_layers = 0) =>
           working = start_storage[DATA_BASE + StartStep - 1]

\* C27: the value read(addr) returns changes, for any address, only in a step
\* in which the scheduler calls write_checkpoint; every other step of a run
\* (restoring at the power gate, computing a butterfly, waiting) leaves
\* every entry as it is.
C27_OnlyWritesChangeMemory ==
    [][ (pc \in {"new", "await", "compute", "checkpoint", "done"}
            /\ runs' = runs
            /\ write_log' = write_log) => storage' = storage ]_vars

\* C28: a started run is suspended only at the compute timeout, the
\* checkpoint timeout or the await of restored, and at each of these either
\* current_step = 0 and the run has written nothing to STATE_ADDR, or
\* NVM[STATE_ADDR] = [current_step].
C28_CounterAtSuspension ==
    /\ pc \in {"new", "await", "compute", "checkpoint", "done"} =>
           (pc \notin {"new", "done"} <=> Suspended)
    /\ Suspended =>
           \/ /\ current_step = 0
              /\ \A i \in DOMAIN write_log : write_log[i] # STATE_ADDR
           \/ /\ Present(storage, STATE_ADDR)
              /\ DOMAIN storage[STATE_ADDR] = {0}
              /\ storage[STATE_ADDR][0] = current_step

\* suspended at the await of restored, two layers checkpointed by this run
C28_Witness ==
    /\ pc = "await"
    /\ FirstRunFromEmpty
    /\ current_step = 2
    /\ Len(write_log) = 4
    /\ storage[STATE_ADDR][0] = 2

\* C29: when the scheduler finds is_powered false at the start of layer k it
\* adds one to power_failures and suspends until restored fires; it then
\* reloads the working buffer from NVM[DATA_BASE + k - 1] and adds one to
\* restores if k > 0, and does neither if k = 0; while it is suspended it
\* computes no butterfly and writes nothing.
C29_PowerGate ==
    [][ /\ (pc \in {"new", "checkpoint"} /\ pc' = "await") =>
              /\ ~is_powered'
              /\ power_failures' = power_failures + 1
        /\ (pc = "await" /\ pc' \in {"await", "compute"}) =>
              /\ storage' = storage
              /\ leakage_trace' = leakage_trace
              /\ completed_layers' = completed_layers
              /\ power_failures' = power_failures
              /\ layer_idx' = layer_idx
        /\ (pc = "await" /\ pc' = "await") =>
              /\ working' = working
              /\ restores' = restores
        /\ (pc = "await" /\ pc' = "compute") =>
              /\ wake /\ is_powered
              /\ IF layer_idx > 0
                 THEN /\ Present(storage, DATA_BASE + layer_idx - 1)
                      /\ working' = storage[DATA_BASE + layer_idx - 1]
                      /\ restores' = restores + 1
                 ELSE /\ working' = working
                      /\ restores' = restores ]_vars

\* the leakage samples appended by the current run: the newest
\* Len(write_log) entries of the log, oldest first
RunSamples ==
    SubSeq(leakage_trace, Len(leakage_trace) - Len(write_log) + 1,
           Len(leakage_trace))

\* C30: in any run of the scheduler the timestamps of the leakage samples
\* never decrease in log order, the samples of the run come in pairs (the
\* data write of a layer, then its counter write), and the two samples of a
\* pair carry the same simulated time.
C30_LeakageTimeOrder ==
    pc \in {"new", "await", "compute", "checkpoint", "done"} =>
        /\ Len(write_log) <= Len(leakage_trace)
        /\ Len(write_log) % 2 = 0
        /\ \A i \in DOMAIN leakage_trace : \A j \in DOMAIN leakage_trace :
               i <= j => leakage_trace[i][1] <= leakage_trace[j][1]
        /\ \A i \in 1..Len(write_log) :
               i % 2 = 1 =>
                   /\ write_log[i] # STATE_ADDR
                   /\ write_log[i + 1] = STATE_ADDR
                   /\ RunSamples[i][1] = RunSamples[i + 1][1]

\* a run on a prepared memory that has lost power and written two layers
\* after the samples of the preparation
C30_Witness ==
    /\ PreparedStart
    /\ power_failures >= 1
    /\ Len(write_log) >= 4
    /\ Len(leakage_trace) > Len(write_log)
    /\ leakage_trace[1][1] = 0
    /\ RunSamples[1][1] < RunSamples[3][1]

\* how many places of the array a hold the value v
Occurrences(a, v) == Cardinality({ i \in DOMAIN a : a[i] = v })

\* C31: for every power-of-two n, _bit_reverse_copy(a, n) holds the entries
\* of a in another order (same length, every value as often as in a), a
\* second application gives a back, and [0..7] is mapped to
\* [0,4,2,6,1,5,3,7].
C31_BitReversalInvolution ==
    /\ pc = "bit_reverse_copy" =>
           /\ DOMAIN result = DOMAIN args[1]
           /\ \A i \in DOMAIN args[1] :
                  Occurrences(result, args[1][i]) =
                      Occurrences(args[1], args[1][i])
           /\ (args[2] = 8 /\ args[1] = [i \in 0..7 |-> i]) =>
                  result = [i \in 0..7 |->
                               << 0, 4, 2, 6, 1, 5, 3, 7 >>[i + 1]]
    /\ pc = "bit_reverse_copy_twice" => result = args[1]

\* np.arange(8) after two applications, the first of which moved entries
C31_Witness ==
    /\ pc = "bit_reverse_copy_twice"
    /\ args[2] = 8
    /\ args[1] = [i \in 0..7 |-> i]
    /\ result = args[1]
    /\ bit_reverse_copy(args[1], 8)[1] = 4

IsPrime(q) == q >= 2 /\ \A d \in 2..(q - 1) : q % d # 0

\* omega = g^((q-1)/n) mod q for the smallest g >= 2 with omega^(n/2) # 1
SmallestGenerated(omega, n, q) ==
    \E g \in 2..(q - 1) :
        /\ omega = PowMod(g, (q - 1) \div n, q)
        /\ PowMod(omega, n \div 2, q) # 1
        /\ \A h \in 2..(g - 1) :
               PowMod(PowMod(h, (q - 1) \div n, q), n \div 2, q) = 1

\* omega^n = 1 and omega^k # 1 for 0 < k < n, modulo q
HasOrder(omega, n, q) ==
    /\ PowMod(omega, n, q) = 1 % q
    /\ \A k \in 1..(n - 1) : PowMod(omega, k, q) # 1 % q

\* C32: for every prime q and every power of two n dividing q - 1, the
\* default pair apart, PolynomialRing(n, q) yields a ring whose omega is
\* g^((q-1)/n) mod q for the smallest g >= 2 with omega^(n/2) # 1, and that
\* omega has multiplicative order exactly n modulo q.
C32_OmegaSelected ==
    (/\ pc = "construct"
     /\ IsPrime(args[2])
     /\ IsPowerOfTwo(args[1])
     /\ Divides(args[1], args[2] - 1)
     /\ ~(args[1] = DEFAULT_N /\ args[2] = DEFAULT_Q)) =>
        /\ "omega" \in DOMAIN result
        /\ SmallestGenerated(result.omega, args[1], args[2])
        /\ HasOrder(result.omega, args[1], args[2])

\* C33: within one run no layer is executed twice: at every suspension
\* point, whatever the power source did, completed_layers is current_step
\* minus the step the run started from, the run has made 2 * completed_layers
\* writes, and no data slot was written twice.
C33_NoLayerTwice ==
    Suspended =>
        /\ completed_layers = current_step - StartStep
        /\ Len(write_log) = 2 * completed_layers
        /\ \A i, j \in DOMAIN write_log :
               (i # j /\ write_log[i] = write_log[j]) =>
                   write_log[i] = STATE_ADDR

\* a run that started from step 1, lost power, and waits in the compute
\* timeout of layer 2 with one layer completed
C33_Witness ==
    /\ pc = "compute"
    /\ PreparedStart
    /\ StartStep = 1
    /\ power_failures >= 1
    /\ layer_idx = 2
    /\ completed_layers = 1
    /\ Len(write_log) = 2

\* C34: the scheduler executes a butterfly layer, and makes its checkpoint
\* writes, only while the power source is on, whatever the power source
\* does: is_powered is true in every step that computes a layer or writes a
\* checkpoint.
C34_WorkOnlyWhilePowered ==
    [][ /\ (pc = "compute" /\ pc' = "checkpoint") => is_powered
        /\ (pc = "checkpoint" /\ Len(write_log') > Len(write_log)) =>
               is_powered ]_vars

\* C35: no wake-up is lost at the power gate.  A scheduler that suspends on
\* power_restored does so with the power off and as a subscriber of the
\* event; the first OFF->ON edge of the run's power source after that
\* schedules its resumption; no other edge comes before it has resumed; and
\* the power is on when it resumes.
C35_NoLostWakeup ==
    [][ /\ (pc # "await" /\ pc' = "await") =>
               /\ ~is_powered'
               /\ ~wake'
               /\ Notified(power_restored', "task")
        /\ (pc = "await" /\ ~wake /\ runs' = runs /\ ~is_powered /\ is_powered') =>
               /\ wake'
               /\ pc' = "await"
        /\ (pc = "await" /\ ~wake /\ pc' = "await" /\ ~wake') =>
               /\ ~is_powered'
               /\ Notified(power_restored', "task")
        /\ (pc = "await" /\ wake) =>
               /\ is_powered
               /\ pc' = "compute" /\ is_powered' /\ ~wake' ]_vars

\* the task back from the wait at the gate of layer 0, with the power on and
\* the time of the outage behind it
C35_Witness ==
    /\ pc = "compute"
    /\ layer_idx = 0
    /\ power_failures = 1
    /\ is_powered
    /\ ~wake
    /\ now > 0

\* the progress counter a memory holds (0 when STATE_ADDR is absent)
StoredStep(st) == IF Present(st, STATE_ADDR) THEN st[STATE_ADDR][0] ELSE 0

\* C36: during a run the progress counter in NVM only moves forward.  Every
\* step that writes STATE_ADDR leaves there a value one greater than the
\* value held before (1 when it was absent); no other step changes what
\* STATE_ADDR holds; so the value never decreases and never skips a layer.
C36_CounterMovesForward ==
    [][ /\ (pc \in {"new", "await", "compute", "checkpoint", "done"}
             /\ runs' = runs
             /\ Len(write_log') > Len(write_log)) =>
                /\ Present(storage', STATE_ADDR)
                /\ DOMAIN storage'[STATE_ADDR] = {0}
                /\ storage'[STATE_ADDR][0] = StoredStep(storage) + 1
        /\ (pc \in {"new", "await", "compute", "checkpoint", "done"}
             /\ runs' = runs
             /\ Len(write_log') <= Len(write_log)) =>
                /\ Present(storage', STATE_ADDR) = Present(storage, STATE_ADDR)
                /\ StoredStep(storage') = StoredStep(storage) ]_vars

\* a run on a prepared memory, after a power failure, has moved the counter
\* it found (at least 1) one step on
C36_Witness ==
    /\ PreparedStart
    /\ power_failures >= 1
    /\ Len(write_log) = 2
    /\ StoredStep(start_storage) >= 1
    /\ StoredStep(storage) = StoredStep(start_storage) + 1

====
